---- MODULE Spec2Model ----
(***************************************************************************)
(* A model of the indexer crate: the case-insensitive term key             *)
(* (case_insensitive_string.rs), the lexer (tokenizer/lexer.rs), the two   *)
(* tokenizers (tokenizer.rs, tokenizer/text.rs, tokenizer/xml.rs) and the  *)
(* index with its TF-IDF search (lib.rs).                                  *)
(*                                                                         *)
(* A string is a sequence of Unicode scalar values (code points below      *)
(* 2048); its bytes are its UTF-8 encoding.  A HashMap keyed by            *)
(* CaseInsensitiveString is a function whose domain holds the stored       *)
(* (case-preserved) key texts; lookups go through eq.                      *)
(***************************************************************************)
EXTENDS Integers, Sequences, FiniteSets, TLC

VARIABLES
    ka, kb, kres,             \* two term keys and the results of cmp / eq / hash on them
    buf, content, out, lexpc, \* a Lexer: the buffer it was built on, Lexer.content,
                              \* the tokens yielded so far, the iterator's position
    index,                    \* the Index: documents and term_frequency
    pending,                  \* traverse_tree: the files not yet handed to the callback
    rejected,                 \* the files handed over that could not be made a Document
    ipc,                      \* the position of Index::new
    dinput, doc,              \* one Document::build: its tokenizer and file, its result
    searched                  \* the last Index::search: its query, idf inputs and results

keyVars == <<ka, kb, kres>>
lexVars == <<buf, content, out, lexpc>>
idxVars == <<index, pending, rejected, ipc, searched>>
docVars == <<dinput, doc>>
vars ==
    <<ka, kb, kres, buf, content, out, lexpc, index, pending, rejected, ipc, dinput, doc, searched>>

(***************************************************************************)
(* Bounds of the model.                                                    *)
(***************************************************************************)
MaxKeyLen == 2
MaxBuf == 4
MaxFiles == 3
MaxEvents == 2
MaxDocLen == 3

(***************************************************************************)
(* Characters.                                                             *)
(***************************************************************************)
Tab == 9
LineFeed == 10
FormFeed == 12
CarriageReturn == 13
Space == 32
Dot == 46
Underscore == 95

Min(S) == CHOOSE x \in S : \A y \in S : x <= y

\* The element of a singleton.  In TheOnly({e(x) : x \in {v}}) the value v is
\* computed once and named x in e.
TheOnly(S) == CHOOSE x \in S : TRUE

BoundedSeq(S, n) == UNION {[1..k -> S] : k \in 0..n}

is_ascii_digit(c) == c \in 48..57

is_ascii_alphabetic(c) == c \in 65..90 \/ c \in 97..122

is_ascii_whitespace(c) == c \in {Space, Tab, LineFeed, FormFeed, CarriageReturn}

\* char::is_alphanumeric, on the code points below 256: ASCII letters and
\* digits, the Latin-1 letters, and the Latin-1 numeric characters.
is_alphanumeric(c) ==
    \/ is_ascii_alphabetic(c)
    \/ is_ascii_digit(c)
    \/ c \in {170, 181, 186} \/ c \in 192..214 \/ c \in 216..246 \/ c \in 248..255
    \/ c \in {178, 179, 185, 188, 189, 190}

to_ascii_uppercase(c) == IF c \in 97..122 THEN c - 32 ELSE c

to_ascii_lowercase(b) == IF b \in 65..90 THEN b + 32 ELSE b

len_utf8(c) == IF c < 128 THEN 1 ELSE 2

\* The UTF-8 encoding of one code point below 2048.
encode_utf8(c) == IF c < 128 THEN <<c>> ELSE <<192 + (c \div 64), 128 + (c % 64)>>

RECURSIVE as_bytes(_)
as_bytes(s) == IF s = <<>> THEN <<>> ELSE encode_utf8(Head(s)) \o as_bytes(Tail(s))

\* str::len: the length in bytes.
len(s) == Len(as_bytes(s))

(***************************************************************************)
(* CaseInsensitiveString.                                                  *)
(***************************************************************************)
\* The bytes Hash::hash feeds to the hasher, in order.
hash_unfolded(s) == as_bytes(s) \o <<255>>
hash(s) ==
    LET b == as_bytes(s)
    IN  [i \in 1..Len(b) |-> to_ascii_lowercase(b[i])] \o <<255>>

\* PartialEq::eq: str::eq_ignore_ascii_case.
eq(s, other) ==
    LET a == as_bytes(s)
        b == as_bytes(other)
    IN  /\ Len(a) = Len(b)
        /\ \A i \in 1..Len(a) : to_ascii_lowercase(a[i]) = to_ascii_lowercase(b[i])

\* u32 comparison of two chars.
char_cmp(c1, c2) == IF c1 < c2 THEN "Less" ELSE IF c1 > c2 THEN "Greater" ELSE "Equal"

\* PartialOrd::partial_cmp; char::partial_cmp is never None.
partial_cmp(s, other) ==
    LET n == IF Len(s) < Len(other) THEN Len(s) ELSE Len(other)
        diff == {i \in 1..n : to_ascii_uppercase(s[i]) # to_ascii_uppercase(other[i])}
    IN  IF diff # {}
        THEN LET i == Min(diff)
             IN  IF char_cmp(to_ascii_uppercase(s[i]), to_ascii_uppercase(other[i])) = "Greater"
                 THEN "Greater"
                 ELSE "Equal"
        ELSE char_cmp(len(s), len(other))

\* Ord::cmp.
cmp(s, other) == partial_cmp(s, other)

(***************************************************************************)
(* The key operations applied to a pair of keys.                           *)
(***************************************************************************)
\* 'A', 'a', 'B', 'b', and the non-ASCII letters U+00C9 and U+00E9.
KeyChars == {65, 97, 66, 98, 201, 233}

KeyStrings == BoundedSeq(KeyChars, MaxKeyLen)

KeyIdle == ka = <<>> /\ kb = <<>> /\ kres = [ord |-> <<>>, eq |-> <<>>, hash |-> <<>>]

LexIdle == buf = <<>> /\ content = <<>> /\ out = <<>> /\ lexpc = "idle"

DocIdle == dinput = <<>> /\ doc = <<>>

IndexIdle ==
    /\ index = [documents |-> <<>>, term_frequency |-> <<>>]
    /\ pending = {}
    /\ rejected = {}
    /\ ipc = "idle"
    /\ searched = <<>>

KeyInit ==
    /\ ka \in KeyStrings
    /\ kb \in KeyStrings
    /\ kres = [ord |-> <<>>, eq |-> <<>>, hash |-> <<>>]
    /\ LexIdle
    /\ IndexIdle
    /\ DocIdle

Cmp ==
    /\ kres.ord = <<>>
    /\ kres' = [kres EXCEPT !.ord = <<cmp(ka, kb)>>]
    /\ UNCHANGED <<ka, kb, lexVars, idxVars, docVars>>

Eq ==
    /\ kres.eq = <<>>
    /\ kres' = [kres EXCEPT !.eq = <<eq(ka, kb)>>]
    /\ UNCHANGED <<ka, kb, lexVars, idxVars, docVars>>

Hash ==
    /\ kres.hash = <<>>
    /\ kres' = [kres EXCEPT !.hash = <<hash(ka), hash(kb)>>]
    /\ UNCHANGED <<ka, kb, lexVars, idxVars, docVars>>

KeyNext == Cmp \/ Eq \/ Hash

KeySpec == KeyInit /\ [][KeyNext]_vars

(***************************************************************************)
(* Lexer.                                                                  *)
(***************************************************************************)
\* A &str is sliced at char boundaries only, so content, tokens and offsets
\* are kept in chars.

\* The number of leading chars take_while accepts; accepted[k] is what the
\* closure answers for the k-th char (a FnMut closure is called once per char
\* in order, so its answer may depend on the position).
take_while_count(accepted) ==
    LET bad == {k \in 1..Len(accepted) : ~accepted[k]}
    IN  IF bad = {} THEN Len(accepted) ELSE Min(bad) - 1

\* The end of the token: the offset i of the last accepted char (the chars
\* are numbered from 1 here, offsets from 0) plus the length of that char.
chomp_index_no_len(last) == last - 1
chomp_index(last) == (last - 1) + 1

\* Lexer::chomp_while: the token, the new content, and whether expect() failed.
chomp_while(s, accepted) ==
    TheOnly({
        IF last = 0
        THEN [panic |-> TRUE, token |-> <<>>, content |-> s]
        ELSE [panic |-> FALSE,
              token |-> SubSeq(s, 1, chomp_index(last)),
              content |-> SubSeq(s, chomp_index(last) + 1, Len(s))]
        : last \in {take_while_count(accepted)}})

\* Lexer::skip_whitespaces.
skip_whitespaces(s) ==
    LET found == {k \in 1..Len(s) : ~is_ascii_whitespace(s[k]) /\ s[k] # LineFeed}
    IN  IF found # {} THEN SubSeq(s, Min(found), Len(s)) ELSE s

\* The predicates of the three rules of get_next_token.
digits_only(k, c) == is_ascii_digit(c)
digit_or_dot(k, c) == is_ascii_digit(c) \/ c = Dot
word_char(k, c) == is_alphanumeric(c) \/ c = Underscore
first_only(k, c) == k = 1

\* Lexer::get_next_token: none is TRUE for None.
get_next_token(s) ==
    TheOnly({
        IF c = <<>>
        THEN [none |-> TRUE, panic |-> FALSE, token |-> <<>>, content |-> c]
        ELSE [none |-> FALSE] @@
             (IF is_ascii_digit(Head(c))
              THEN chomp_while(c, [k \in 1..Len(c) |-> digit_or_dot(k, c[k])])
              ELSE IF is_ascii_alphabetic(Head(c))
              THEN chomp_while(c, [k \in 1..Len(c) |-> word_char(k, c[k])])
              ELSE chomp_while(c, [k \in 1..Len(c) |-> first_only(k, c[k])]))
        : c \in {skip_whitespaces(s)}})

\* '1', '.', 'a', U+00E9, '_', ' '.
LexChars == {49, Dot, 97, 233, Underscore, Space}

\* "foo123 bar_baz, 3.14"
ExampleBuf ==
    <<102, 111, 111, 49, 50, 51, 32, 98, 97, 114, 95, 98, 97, 122, 44, 32, 51, 46, 49, 52>>

\* ["foo123", "bar_baz", ",", "3.14"]
ExampleTokens ==
    << <<102, 111, 111, 49, 50, 51>>, <<98, 97, 114, 95, 98, 97, 122>>, <<44>>, <<51, 46, 49, 52>> >>

LexInit == LexIdle /\ KeyIdle /\ IndexIdle /\ DocIdle

\* Lexer::new on a buffer.
LexerNew ==
    /\ lexpc = "idle"
    /\ \E b \in BoundedSeq(LexChars, MaxBuf) \cup {ExampleBuf} :
           /\ buf' = b
           /\ content' = b
    /\ out' = <<>>
    /\ lexpc' = "iterating"
    /\ UNCHANGED <<keyVars, idxVars, docVars>>

\* Iterator::next on the Lexer.  A token is recorded with the offset in
\* buf (in chars) at which it starts.
IteratorNext ==
    /\ lexpc = "iterating"
    /\ \E r \in {get_next_token(content)} :
           /\ content' = r.content
           /\ IF r.panic THEN lexpc' = "panicked" /\ out' = out
              ELSE IF r.none THEN lexpc' = "done" /\ out' = out
              ELSE /\ lexpc' = "iterating"
                   /\ out' = Append(out, [token |-> r.token,
                                          start |-> Len(buf) - Len(r.content) - Len(r.token)])
    /\ UNCHANGED <<buf, keyVars, idxVars, docVars>>

LexNext == LexerNew \/ IteratorNext

LexSpec == LexInit /\ [][LexNext]_vars

LexFairSpec == LexSpec /\ WF_vars(LexNext)

(***************************************************************************)
(* Tokenizers.                                                             *)
(***************************************************************************)
\* The tokens the Lexer iterator yields over a buffer.
RECURSIVE lex(_)
lex(s) ==
    TheOnly({IF r.none \/ r.panic THEN <<>> ELSE <<r.token>> \o lex(r.content)
             : r \in {get_next_token(s)}})

\* HashMap lookup of a CaseInsensitiveString: the stored keys equal to k
\* (the hasher sends equal keys to the same bucket, eq picks the entry).
stored_key_exact(m, k) == {s \in DOMAIN m : s = k}
stored_key(m, k) == {s \in DOMAIN m : eq(s, k)}

\* HashMap::get.
get(m, k) == IF stored_key(m, k) = {} THEN <<>> ELSE <<m[CHOOSE s \in stored_key(m, k) : TRUE]>>

\* The body of the loop of tokenize_string: count one token.
count_token(term_frequency, token) ==
    IF stored_key(term_frequency, token) # {}
    THEN [term_frequency EXCEPT ![CHOOSE s \in stored_key(term_frequency, token) : TRUE] = @ + 1]
    ELSE term_frequency @@ (token :> 1)

RECURSIVE count_tokens(_, _)
count_tokens(term_frequency, tokens) ==
    IF tokens = <<>> THEN term_frequency
    ELSE TheOnly({count_tokens(counted, Tail(tokens))
                  : counted \in {count_token(term_frequency, Head(tokens))}})

\* Tokenizer::tokenize_string: the table after the call and the returned count.
tokenize_string(s, term_frequency) ==
    TheOnly({[term_frequency |-> count_tokens(term_frequency, tokens), count |-> Len(tokens)]
             : tokens \in {lex(s)}})

\* TextTokenizer::tokenize.  A reader is what the file gives when read:
\* text is <<>> when read_to_string fails, <<s>> when it returns s.
text_tokenize(reader, term_frequency) ==
    IF reader.text = <<>>
    THEN [ok |-> FALSE, term_frequency |-> term_frequency, count |-> 0]
    ELSE TheOnly({[ok |-> TRUE, term_frequency |-> r.term_frequency, count |-> r.count]
                  : r \in {tokenize_string(reader.text[1], term_frequency)}})

\* XmlTokenizer::tokenize: the loop over the events of the EventReader.
RECURSIVE xml_events(_, _, _)
xml_events(events, term_frequency, count) ==
    IF events = <<>>
    THEN [ok |-> TRUE, term_frequency |-> term_frequency, count |-> count]
    ELSE IF Head(events).kind = "Err"
    THEN [ok |-> FALSE, term_frequency |-> term_frequency, count |-> count]
    ELSE IF Head(events).kind = "Characters"
    THEN TheOnly({xml_events(Tail(events), r.term_frequency, count + r.count)
                  : r \in {tokenize_string(Head(events).s, term_frequency)}})
    ELSE xml_events(Tail(events), term_frequency, count)

xml_tokenize(reader, term_frequency) == xml_events(reader.events, term_frequency, 0)

(***************************************************************************)
(* Document.                                                               *)
(***************************************************************************)
\* Document::build: ok is FALSE for Err.
build(file, tokenizer) ==
    IF ~file.opens
    THEN [ok |-> FALSE, term_frequency |-> <<>>, count |-> 0]
    ELSE IF tokenizer = "XmlTokenizer"
    THEN xml_tokenize(file, <<>>)
    ELSE text_tokenize(file, <<>>)

\* 'a', 'A', 'b', ' ': the chars of the files a Document is built from.
DocChars == {97, 65, 98, Space}

DocXmlEvents ==
    {[kind |-> "Characters", s |-> b] : b \in BoundedSeq(DocChars, 1) \cup {<<65, 32, 97>>}}
        \cup {[kind |-> "StartElement", s |-> <<>>], [kind |-> "Err", s |-> <<>>]}

DocInputs ==
    {[tokenizer |-> "TextTokenizer", file |-> [opens |-> TRUE, text |-> <<t>>, events |-> <<>>]] :
        t \in BoundedSeq(DocChars, MaxDocLen)}
    \cup {[tokenizer |-> "XmlTokenizer", file |-> [opens |-> TRUE, text |-> <<>>, events |-> e]] :
        e \in BoundedSeq(DocXmlEvents, MaxEvents)}
    \cup {[tokenizer |-> t, file |-> [opens |-> o, text |-> <<>>, events |-> <<>>]] :
        t \in {"TextTokenizer", "XmlTokenizer"}, o \in BOOLEAN}

DocInit ==
    /\ dinput \in DocInputs
    /\ doc = <<>>
    /\ KeyIdle
    /\ LexIdle
    /\ IndexIdle

\* Document::build on the file with the tokenizer.
Build ==
    /\ doc = <<>>
    /\ doc' = <<build(dinput.file, dinput.tokenizer)>>
    /\ UNCHANGED <<dinput, keyVars, lexVars, idxVars>>

DocNext == Build

DocSpec == DocInit /\ [][DocNext]_vars

(***************************************************************************)
(* Index::new.                                                             *)
(***************************************************************************)
\* The match on the extension in the callback of Index::new; an extension is
\* <<>> for None and <<e>> for Some(e).
tokenizer_for(ext) ==
    IF ext = <<>> THEN "Unknown"
    ELSE IF ext[1] \in {"xhtml", "xml"} THEN "XmlTokenizer"
    ELSE IF ext[1] \in {"text", "txt", "rs"} THEN "TextTokenizer"
    ELSE "NoHandler"

\* The body of the loop of apply_tokenizer! over the keys of the Document.
count_occurrences(term_frequency, term, d) ==
    IF stored_key(term_frequency, term) # {}
    THEN [term_frequency EXCEPT
              ![CHOOSE s \in stored_key(term_frequency, term) : TRUE] = @ + d.term_frequency[term]]
    ELSE term_frequency @@ (term :> d.term_frequency[term])
count_document(term_frequency, term, d) ==
    IF stored_key(term_frequency, term) # {}
    THEN [term_frequency EXCEPT ![CHOOSE s \in stored_key(term_frequency, term) : TRUE] = @ + 1]
    ELSE term_frequency @@ (term :> 1)

RECURSIVE count_documents(_, _, _)
count_documents(term_frequency, terms, d) ==
    IF terms = {} THEN term_frequency
    ELSE TheOnly({count_documents(counted, terms \ {term}, d)
                  : <<term, counted>> \in
                        {<<t, count_document(term_frequency, t, d)>> : t \in {CHOOSE t \in terms : TRUE}}})

\* HashMap::insert on documents.
insert(documents, p, d) ==
    IF p \in DOMAIN documents THEN [documents EXCEPT ![p] = d] ELSE documents @@ (p :> d)

\* apply_tokenizer!: the Index after the file at p has been processed.
apply_tokenizer_keep_partial(tokenizer, p, file, idx) ==
    TheOnly({
        [documents |-> insert(idx.documents, p, [term_frequency |-> r.term_frequency, count |-> r.count]),
         term_frequency |-> count_documents(idx.term_frequency, DOMAIN r.term_frequency, r)]
        : r \in {build(file, tokenizer)}})
apply_tokenizer(tokenizer, p, file, idx) ==
    TheOnly({
        IF r.ok
        THEN [documents |-> insert(idx.documents, p, [term_frequency |-> r.term_frequency, count |-> r.count]),
              term_frequency |-> count_documents(idx.term_frequency, DOMAIN r.term_frequency, r)]
        ELSE idx
        : r \in {build(file, tokenizer)}})

\* The texts files and queries are made of: "a", "A a", "b c", "b b a",
\* "A b", "b d", "a a".
LetterA == <<97>>
TextAa == <<65, 32, 97>>
TextBC == <<98, 32, 99>>
TextBBA == <<98, 32, 98, 32, 97>>
QueryAb == <<65, 32, 98>>
QueryBD == <<98, 32, 100>>
QueryAA == <<97, 32, 97>>
TextBufs == {TextBC, TextBBA}
XmlBufs == {TextAa}
Queries == {LetterA, QueryAb, QueryBD, QueryAA}

\* What the file system and the XML parser can give for one file.
XmlEvents ==
    {[kind |-> "Characters", s |-> b] : b \in XmlBufs}
        \cup {[kind |-> "StartElement", s |-> <<>>], [kind |-> "Err", s |-> <<>>]}
NoFile == [opens |-> FALSE, text |-> <<>>, events |-> <<>>]
TextFiles == {[opens |-> TRUE, text |-> t, events |-> <<>>] : t \in {<<b>> : b \in TextBufs}}
XmlFiles == {[opens |-> TRUE, text |-> <<>>, events |-> e] : e \in BoundedSeq(XmlEvents, MaxEvents)}
FilesFor(tokenizer) ==
    IF tokenizer = "XmlTokenizer" THEN XmlFiles \cup {NoFile}
    ELSE IF tokenizer = "TextTokenizer" THEN TextFiles \cup {NoFile}
    ELSE {NoFile}
Exts == {<<"xml">>, <<"txt">>, <<"md">>, <<>>}

\* The file cannot be made a Document: it cannot be opened or read, its
\* markup does not parse, or its extension has no tokenizer.
Unindexable(file, ext) ==
    \/ tokenizer_for(ext) \in {"Unknown", "NoHandler"}
    \/ ~file.opens
    \/ tokenizer_for(ext) = "TextTokenizer" /\ file.text = <<>>
    \/ tokenizer_for(ext) = "XmlTokenizer"
           /\ \E k \in 1..Len(file.events) : file.events[k].kind = "Err"

Init ==
    /\ index = [documents |-> <<>>, term_frequency |-> <<>>]
    /\ pending = 1..MaxFiles
    /\ rejected = {}
    /\ ipc = "walking"
    /\ searched = <<>>
    /\ KeyIdle
    /\ LexIdle
    /\ DocIdle

\* traverse_tree hands one more file to the callback of Index::new, which
\* dispatches on the extension and applies the tokenizer.
Callback ==
    /\ ipc = "walking"
    /\ \E i \in pending, ext \in Exts :
           \E file \in FilesFor(tokenizer_for(ext)) :
               /\ pending' = pending \ {i}
               /\ index' = IF tokenizer_for(ext) \in {"XmlTokenizer", "TextTokenizer"}
                           THEN apply_tokenizer(tokenizer_for(ext), [id |-> i, ext |-> ext],
                                                file, index)
                           ELSE index
               /\ rejected' = IF Unindexable(file, ext) THEN rejected \cup {i} ELSE rejected
    /\ UNCHANGED <<ipc, searched, keyVars, lexVars, docVars>>

\* traverse_tree has no more file: Index::new returns the index.
Return ==
    /\ ipc = "walking"
    /\ pending = {}
    /\ ipc' = "built"
    /\ UNCHANGED <<index, pending, rejected, searched, keyVars, lexVars, docVars>>

(***************************************************************************)
(* Index::search.                                                          *)
(***************************************************************************)
\* Document::contains.
contains_exact(d, term) == stored_key_exact(d.term_frequency, term) # {}
contains(d, term) == stored_key(d.term_frequency, term) # {}

\* Document::term_frequency, as the fraction num / den.
term_frequency(d, term) ==
    IF get(d.term_frequency, term) = <<>>
    THEN [num |-> 0, den |-> 1]
    ELSE [num |-> get(d.term_frequency, term)[1], den |-> d.count]

\* log2 of 1..8 in millionths; f64 scores are modelled as exact fractions of
\* these.
Log2Micro == <<0, 1000000, 1584963, 2000000, 2321928, 2584963, 2807355, 3000000>>
NegInfinity == -1000000000

\* Index::idf: n and d as counted, and log2(n / (d + 1)) in millionths.
idf(idx, term) ==
    TheOnly({
        [n |-> n, d |-> d,
         value |-> IF n = 0 THEN NegInfinity ELSE Log2Micro[n] - Log2Micro[d + 1]]
        : <<n, d>> \in
              {<<Cardinality(DOMAIN idx.documents),
                 Cardinality({p \in DOMAIN idx.documents : contains(idx.documents[p], term)})>>}})

\* The sum over the query terms of tf * idf for one Document.
RECURSIVE score(_, _)
score(d, terms) ==
    IF terms = <<>> THEN [num |-> 0, den |-> IF d.count = 0 THEN 1 ELSE d.count]
    ELSE TheOnly({
             [num |-> term_frequency(d, Head(terms).t).num * Head(terms).idf.value + rest.num,
              den |-> rest.den]
             : rest \in {score(d, Tail(terms))}})

\* f64::partial_cmp on two scores.
score_cmp(s1, s2) == char_cmp(s1.num * s2.den, s2.num * s1.den)

\* slice::sort_by with the comparison of search: stable, ascending.
sort_by(results) ==
    TheOnly({
        LET rank(i) ==
                Cardinality({j \in 1..Len(v) :
                    \/ score_cmp(v[j].score, v[i].score) = "Less"
                    \/ j < i /\ score_cmp(v[j].score, v[i].score) = "Equal"}) + 1
        IN  [k \in 1..Len(v) |-> v[CHOOSE i \in 1..Len(v) : rank(i) = k]]
        : v \in {results}})

reverse(results) == TheOnly({[k \in 1..Len(v) |-> v[Len(v) + 1 - k]] : v \in {results}})

filter_nonzero(results) == SelectSeq(results, LAMBDA r : r.score.num # 0)

\* The lexed query with the idf of every token.
query_terms(idx, query) ==
    TheOnly({[k \in 1..Len(tokens) |-> [t |-> tokens[k], idf |-> idf(idx, tokens[k])]]
             : tokens \in {lex(query)}})

\* Index::search; order is the order in which the HashMap iterates documents.
search_unreversed(idx, query, order) ==
    TheOnly({
        sort_by(filter_nonzero(
            [k \in 1..Len(order) |->
                [path |-> order[k], score |-> score(idx.documents[order[k]], terms)]]))
        : terms \in {query_terms(idx, query)}})
search(idx, query, order) ==
    TheOnly({
        reverse(sort_by(filter_nonzero(
            [k \in 1..Len(order) |->
                [path |-> order[k], score |-> score(idx.documents[order[k]], terms)]])))
        : terms \in {query_terms(idx, query)}})

\* The orders in which a HashMap can iterate its keys.
Orders(S) == {o \in [1..Cardinality(S) -> S] : \A i, j \in 1..Cardinality(S) : i # j => o[i] # o[j]}

\* The search command: one Index::search on the built index.
Search ==
    /\ ipc = "built"
    /\ searched = <<>>
    /\ \E query \in Queries, order \in Orders(DOMAIN index.documents) :
           searched' = <<[query |-> query,
                          terms |-> query_terms(index, query),
                          results |-> search(index, query, order)]>>
    /\ UNCHANGED <<index, pending, rejected, ipc, keyVars, lexVars, docVars>>

Next == Callback \/ Return \/ Search

Spec == Init /\ [][Next]_vars

(***************************************************************************)
(* Properties of the term key.                                             *)
(***************************************************************************)
KeyCompared == kres.ord # <<>> /\ kres.eq # <<>>

\* C1: the ordering of term keys is a total order consistent with equality:
\* cmp(a, b) is Equal exactly when a == b, cmp(a, b) is Less exactly when
\* cmp(b, a) is Greater, and the order is transitive.
C1_TotalOrderConsistentWithEq ==
    KeyCompared =>
        /\ (kres.ord[1] = "Equal") <=> kres.eq[1]
        /\ (kres.ord[1] = "Less") <=> (cmp(kb, ka) = "Greater")
        /\ \A kc \in KeyStrings :
               (kres.ord[1] # "Greater" /\ cmp(kb, kc) # "Greater") => cmp(ka, kc) # "Greater"

\* The ASCII case folding of a byte sequence, and of a string.
FoldByte(b) == IF b \in 97..122 THEN b - 32 ELSE b
FoldBytes(bs) == [i \in 1..Len(bs) |-> FoldByte(bs[i])]
AsciiUpper(s) == [i \in 1..Len(s) |-> IF s[i] \in 97..122 THEN s[i] - 32 ELSE s[i]]
AsciiLower(s) == [i \in 1..Len(s) |-> IF s[i] \in 65..90 THEN s[i] + 32 ELSE s[i]]

\* C9: two term keys are equal exactly when their ASCII-case-folded byte
\* sequences are identical (so a key equals its ASCII upper- and lower-cased
\* forms, and non-ASCII bytes are compared verbatim), and equal keys feed
\* identical byte sequences to the hasher.
C9_EqIsFoldedBytesAndHashAgrees ==
    /\ kres.eq # <<>> =>
           /\ kres.eq[1] <=> (FoldBytes(as_bytes(ka)) = FoldBytes(as_bytes(kb)))
           /\ (kb = AsciiUpper(ka) \/ kb = AsciiLower(ka)) => kres.eq[1]
    /\ (kres.eq # <<>> /\ kres.hash # <<>> /\ kres.eq[1]) => kres.hash[1] = kres.hash[2]

\* Two different texts, one with a non-ASCII letter, that are equal keys and
\* have been hashed.
C9_Witness ==
    /\ ka = <<233, 97>>
    /\ kb = <<233, 65>>
    /\ kres.eq = <<TRUE>>
    /\ kres.hash # <<>>

(***************************************************************************)
(* Properties of the lexer.                                                *)
(***************************************************************************)
IsWhitespaceToken(t) == Len(t) = 1 /\ is_ascii_whitespace(t[1])

\* C2: a buffer that is empty or all ASCII whitespace yields no token, and no
\* yielded token is a whitespace character, also at the end of the buffer.
C2_NoWhitespaceToken ==
    /\ \A i \in 1..Len(out) : ~IsWhitespaceToken(out[i].token)
    /\ (\A k \in 1..Len(buf) : is_ascii_whitespace(buf[k])) => out = <<>>

\* The chars of buf at offsets from..to-1.
BufBetween(from, to) == SubSeq(buf, from + 1, to)
RunOfDigitsAndDots(t) == \A k \in 1..Len(t) : is_ascii_digit(t[k]) \/ t[k] = Dot
RunOfWordChars(t) == \A k \in 1..Len(t) : is_alphanumeric(t[k]) \/ t[k] = Underscore
TokenEnd(i) == out[i].start + Len(out[i].token)

\* The token is the maximal munch of the rule its first char selects, given
\* the chars that follow it in the buffer.
MaximalMunch(t, rest) ==
    IF is_ascii_digit(t[1])
    THEN /\ RunOfDigitsAndDots(t)
         /\ rest # <<>> => ~(is_ascii_digit(rest[1]) \/ rest[1] = Dot)
    ELSE IF is_ascii_alphabetic(t[1])
    THEN /\ RunOfWordChars(t)
         /\ rest # <<>> => ~(is_alphanumeric(rest[1]) \/ rest[1] = Underscore)
    ELSE Len(t) = 1

\* C3: the tokens yielded are, in buffer order and without overlap, the
\* maximal-munch tokens of the three rules (a digit starts the longest run of
\* digits and '.', an ASCII letter the longest run of alphanumerics and '_',
\* any other token is one char), only whitespace lies between them, and
\* "foo123 bar_baz, 3.14" yields "foo123", "bar_baz", ",", "3.14".
C3_MaximalMunchTokens ==
    /\ \A i \in 1..Len(out) :
           LET t == out[i].token
               prevEnd == IF i = 1 THEN 0 ELSE TokenEnd(i - 1)
               gap == BufBetween(prevEnd, out[i].start)
           IN  /\ t # <<>>
               /\ prevEnd <= out[i].start
               /\ BufBetween(out[i].start, TokenEnd(i)) = t
               /\ \A k \in 1..Len(gap) : is_ascii_whitespace(gap[k])
               /\ MaximalMunch(t, BufBetween(TokenEnd(i), Len(buf)))
    /\ lexpc \in {"iterating", "done"} =>
           LET lastEnd == IF out = <<>> THEN 0 ELSE TokenEnd(Len(out))
               gap == BufBetween(lastEnd, Len(buf) - Len(content))
           IN  /\ lastEnd <= Len(buf) - Len(content)
               /\ content = BufBetween(Len(buf) - Len(content), Len(buf))
               /\ \A k \in 1..Len(gap) : is_ascii_whitespace(gap[k])
    /\ lexpc = "done" => content = <<>>
    /\ (lexpc = "done" /\ buf = ExampleBuf) =>
           [i \in 1..Len(out) |-> out[i].token] = ExampleTokens

\* The example buffer has been lexed to its end.
C3_Witness ==
    /\ buf = ExampleBuf
    /\ lexpc = "done"
    /\ Len(out) = 4
    /\ out[4].token = <<51, 46, 49, 52>>

\* A yielded token is non-empty and shortens the remaining buffer.
TokenShortensContent ==
    (lexpc' = "iterating" /\ out' # out) =>
        /\ Len(out') = Len(out) + 1
        /\ out'[Len(out')].token # <<>>
        /\ Len(content') + Len(out'[Len(out')].token) <= Len(content)

\* C10: iterating a Lexer terminates without error: a yielded token is
\* non-empty and removes at least one char of the remaining buffer, the
\* expectation in chomp_while never fails, and None is returned only when the
\* remaining buffer is empty.
C10_IterationTerminates ==
    /\ [](lexpc # "panicked" /\ (lexpc = "done" => content = <<>>))
    /\ [][TokenShortensContent]_vars
    /\ <>(lexpc = "done")

\* A buffer with a non-ASCII char has been consumed to its end, one token
\* per rule.
C10_Witness ==
    /\ lexpc = "done"
    /\ buf = <<49, 233, 97, 233>>
    /\ Len(out) = 3
    /\ content = <<>>

(***************************************************************************)
(* Properties of Document::build.                                          *)
(***************************************************************************)
RECURSIVE SumOver(_, _)
SumOver(f, S) ==
    IF S = {} THEN 0
    ELSE LET x == CHOOSE y \in S : TRUE IN f[x] + SumOver(f, S \ {x})

RECURSIVE TokensOfEvents(_)
TokensOfEvents(events) ==
    IF events = <<>> THEN <<>>
    ELSE (IF Head(events).kind = "Characters" THEN lex(Head(events).s) ELSE <<>>)
             \o TokensOfEvents(Tail(events))

\* The tokens the Lexer yields over the text the tokenizer takes from the file.
TokensOfInput ==
    IF dinput.tokenizer = "TextTokenizer"
    THEN lex(dinput.file.text[1])
    ELSE TokensOfEvents(dinput.file.events)

Built == doc # <<>> /\ doc[1].ok

\* C5: a Document produced by Document::build, with either tokenizer, has
\* count equal to the sum of its term-frequency values, every stored count is
\* at least 1, and tokens that differ only in ASCII case are counted under one
\* key: the value of a key is the number of lexer tokens equal to it.
C5_DocumentCounts ==
    Built =>
        LET tf == doc[1].term_frequency
            tokens == TokensOfInput
        IN  /\ doc[1].count = SumOver(tf, DOMAIN tf)
            /\ doc[1].count = Len(tokens)
            /\ \A k \in DOMAIN tf :
                   /\ tf[k] >= 1
                   /\ tf[k] = Cardinality({i \in 1..Len(tokens) : eq(tokens[i], k)})
            /\ \A k1, k2 \in DOMAIN tf : eq(k1, k2) => k1 = k2
            /\ \A i \in 1..Len(tokens) : \E k \in DOMAIN tf : eq(tokens[i], k)

\* A markup file with two character-data events whose three tokens differ
\* only in case has been built.
C5_Witness ==
    /\ Built
    /\ dinput.tokenizer = "XmlTokenizer"
    /\ Len(dinput.file.events) = 2
    /\ doc[1].count = 3
    /\ DOMAIN doc[1].term_frequency = {<<65>>}
    /\ doc[1].term_frequency[<<65>>] = 3

(***************************************************************************)
(* Properties of the Index.                                                *)
(***************************************************************************)
\* The Documents stored in the Index whose term-frequency table contains t.
DocumentsWith(t) ==
    {p \in DOMAIN index.documents :
        \E k \in DOMAIN index.documents[p].term_frequency : eq(k, t)}

\* The entries of the Index's document-frequency table for t.
DfEntries(t) == {k \in DOMAIN index.term_frequency : eq(k, t)}

\* The terms the Index has seen, and some it may not have.
ProbeTerms ==
    DOMAIN index.term_frequency
        \cup UNION {DOMAIN index.documents[p].term_frequency : p \in DOMAIN index.documents}
        \cup {<<97>>, <<65>>, <<98>>, <<99>>, <<100>>}

\* C4: after each file, for every term the document-frequency entry equals
\* the number of stored Documents whose term-frequency table contains the
\* term (one per Document however often the term occurs in it), is absent
\* for a term in no Document, and never exceeds the number of Documents.
C4_DocumentFrequency ==
    \A t \in ProbeTerms :
        /\ Cardinality(DfEntries(t)) <= 1
        /\ DocumentsWith(t) = {} <=> DfEntries(t) = {}
        /\ \A k \in DfEntries(t) :
               /\ index.term_frequency[k] = Cardinality(DocumentsWith(t))
               /\ index.term_frequency[k] <= Cardinality(DOMAIN index.documents)

\* Three Documents are stored, a term is in two of them and occurs twice in
\* one of them.
C4_Witness ==
    /\ Cardinality(DOMAIN index.documents) = 3
    /\ \E k \in DOMAIN index.term_frequency :
           /\ index.term_frequency[k] = 2
           /\ \E p \in DocumentsWith(k) :
                  \E j \in DOMAIN index.documents[p].term_frequency :
                      eq(j, k) /\ index.documents[p].term_frequency[j] >= 2

\* A step that rejects a file leaves the Index as it was and the walk goes on
\* with the files that remain.
RejectionLeavesIndex ==
    rejected' # rejected =>
        /\ index' = index
        /\ ipc' = "walking"
        /\ pending' \subseteq pending
        /\ Cardinality(pending') = Cardinality(pending) - 1

\* C6: a file whose Document construction fails, or whose extension has no
\* tokenizer, leaves both maps of the Index as they were, the build goes on
\* with the remaining files, and nothing of a failed file is in the Index.
C6_FailedFileLeavesIndex ==
    /\ [][RejectionLeavesIndex]_vars
    /\ [](\A p \in DOMAIN index.documents : p.id \notin rejected)
    /\ [](\A k \in DOMAIN index.term_frequency : DocumentsWith(k) # {})

\* Two files were rejected and the third one is stored: the build is over.
C6_Witness ==
    /\ ipc = "built"
    /\ Cardinality(rejected) = 2
    /\ Cardinality(DOMAIN index.documents) = 1
    /\ index.term_frequency # <<>>

Searched == searched # <<>>

\* The score of the Document at p for the query searched.
ScoreOf(p) == score(index.documents[p], query_terms(index, searched[1].query))

\* C7: Index::search returns exactly the Documents whose score is not 0, each
\* once, with scores non-increasing from first to last, and the empty list
\* when no Document scores nonzero.
C7_SearchResults ==
    Searched =>
        LET results == searched[1].results
        IN  /\ {results[i].path : i \in 1..Len(results)}
                   = {p \in DOMAIN index.documents : ScoreOf(p).num # 0}
            /\ \A i, j \in 1..Len(results) : results[i].path = results[j].path => i = j
            /\ \A i \in 1..Len(results) : results[i].score = ScoreOf(results[i].path)
            /\ \A i, j \in 1..Len(results) :
                   i < j => results[i].score.num * results[j].score.den
                                >= results[j].score.num * results[i].score.den

\* A search that ranked two Documents with different scores and left a third
\* one out.
C7_Witness ==
    /\ Searched
    /\ Cardinality(DOMAIN index.documents) = 3
    /\ Len(searched[1].results) = 2
    /\ searched[1].results[1].score.num * searched[1].results[2].score.den
           > searched[1].results[2].score.num * searched[1].results[1].score.den

\* The Index's document-frequency for t, 0 if t was never seen.
DfOf(t) == IF DfEntries(t) = {} THEN 0 ELSE index.term_frequency[CHOOSE k \in DfEntries(t) : TRUE]

\* C8: the idf Index::search uses for a query term is computed from N, the
\* number of stored Documents, and from a document count that agrees with
\* the Index's document-frequency table entry for the term (0 if never seen).
C8_IdfAgreesWithDocumentFrequency ==
    Searched =>
        \A k \in 1..Len(searched[1].terms) :
            LET term == searched[1].terms[k]
            IN  /\ term.idf.n = Cardinality(DOMAIN index.documents)
                /\ term.idf.d = DfOf(term.t)
                /\ term.idf.n > 0 =>
                       term.idf.value = Log2Micro[term.idf.n] - Log2Micro[DfOf(term.t) + 1]

\* A search for "A b" over three Documents, two of which have the first term,
\* one of them stored under the key "a" only.
C8_Witness ==
    /\ Searched
    /\ searched[1].query = QueryAb
    /\ Cardinality(DOMAIN index.documents) = 3
    /\ searched[1].terms[1].t = <<65>>
    /\ searched[1].terms[1].idf.d = 2
    /\ \E p \in DOMAIN index.documents :
           /\ <<65>> \notin DOMAIN index.documents[p].term_frequency
           /\ contains(index.documents[p], <<65>>)

====
